---- MODULE Spec2Model ----
(***************************************************************************)
(* State-machine model of the lexer in src/src/lib.rs.                     *)
(*                                                                         *)
(* A character is a one-character string; the one non-ASCII character of   *)
(* the model, U+00B2 SUPERSCRIPT TWO, is written "sup2".  The cursor       *)
(* (Peekable<Chars>) is the pair (input, pos): pos characters have been    *)
(* consumed and input[pos + 1] is the character peek() returns.  Each      *)
(* iteration of the while-let loop of lex_helper is one action, named      *)
(* after the match arm it takes; the sub-scanners are operators that       *)
(* return the token and the cursor position they leave behind.             *)
(*                                                                         *)
(* lex_number adds a u32 (to_digit) to its i32 accumulator; the model      *)
(* takes the arithmetic to be i32 arithmetic, as the declared type of the  *)
(* accumulator and of Type::Number say.                                    *)
(***************************************************************************)
EXTENDS Integers, Sequences, FiniteSets, TLC

VARIABLES input, pos, tokens, status

vars == <<input, pos, tokens, status>>

(***************************************************************************)
(* Bounds of the model.                                                    *)
(***************************************************************************)
MaxLen == 4
MaxShort == 2
MaxDigits == 10
MaxExtra == 1

(***************************************************************************)
(* Characters and their classes.                                           *)
(***************************************************************************)
DQUOTE == "\""
NEWLINE == "\n"
SUP2 == "sup2"

AsciiDigits == {"0", "1", "2", "3", "4", "5", "6", "7", "8", "9"}

Letters == {"a", "d", "e", "f", "i", "l", "n", "r", "s", "t", "u", "x",
            "D", "F", "I", "N", "T"}

StructuralChars == {"(", ")", "{", "}", ".", ",", ";"}

OperatorChars == {"+", "-", "*", "/", "=", "!", "%", ">", "<", "&", "|"}

OtherChars == {" ", "\t", NEWLINE, DQUOTE, "#", "_"}

Chars == AsciiDigits \cup {SUP2} \cup Letters \cup StructuralChars
           \cup OperatorChars \cup OtherChars

\* char::is_numeric: the Unicode categories Nd, Nl and No.
is_numeric(c) == c \in AsciiDigits \cup {SUP2}

\* Seeded faults of is_alphanumeric: digits left out; '_' let in.
is_alphabetic_only(c) == c \in Letters

is_alphanumeric_or_underscore(c) == c \in Letters \cup {"_"} \/ is_numeric(c)

\* char::is_alphanumeric: alphabetic or numeric.
is_alphanumeric(c) == c \in Letters \/ is_numeric(c)

\* char::to_digit(10): the value of an ASCII digit, -1 standing for None.
to_digit(c) ==
    CASE c = "0" -> 0 [] c = "1" -> 1 [] c = "2" -> 2 [] c = "3" -> 3
      [] c = "4" -> 4 [] c = "5" -> 5 [] c = "6" -> 6 [] c = "7" -> 7
      [] c = "8" -> 8 [] c = "9" -> 9 [] OTHER -> -1

(***************************************************************************)
(* Tokens.  Every token is a record of the same shape; the fields a        *)
(* variant of Type does not carry are left at their defaults.              *)
(***************************************************************************)
Tok(type) == [type |-> type, text |-> <<>>, num |-> 0, kind |-> "-"]

TString(t) == [Tok("String") EXCEPT !.text = t]
TNumber(n) == [Tok("Number") EXCEPT !.num = n]
TKeyword(k) == [Tok("Keyword") EXCEPT !.kind = k]
TOperator(o) == [Tok("Operator") EXCEPT !.kind = o]
TIdentifier(t) == [Tok("Identifier") EXCEPT !.text = t]
TNone == Tok("None")

(***************************************************************************)
(* The keyword table and Keyword::from_str.                                *)
(***************************************************************************)
KEYWORDS ==
    << << <<"d", "e", "f", "i", "n", "e">>, "Define" >>,
       << <<"t", "r", "u", "e">>, "True" >>,
       << <<"f", "a", "l", "s", "e">>, "False" >>,
       << <<"i", "f">>, "If" >>,
       << <<"n", "u", "l", "l">>, "Null" >> >>

RECURSIVE from_str_loop(_, _)
from_str_loop(s, i) ==
    IF i > Len(KEYWORDS) THEN "None"
    ELSE IF s = KEYWORDS[i][1] THEN KEYWORDS[i][2]
    ELSE from_str_loop(s, i + 1)

from_str(s) == from_str_loop(s, 1)

(***************************************************************************)
(* The cursor: peek() of the character after position p, "EOF" for None.   *)
(***************************************************************************)
Peek(s, p) == IF p < Len(s) THEN s[p + 1] ELSE "EOF"

\* Seeded faults of lex_string: end of input closes the literal; spaces
\* are not copied into the literal.
RECURSIVE lex_string_closed_by_eof(_, _, _)
lex_string_closed_by_eof(s, p, accumulator) ==
    IF p >= Len(s) THEN [ok |-> TRUE, tok |-> TString(accumulator), pos |-> p]
    ELSE IF s[p + 1] = DQUOTE
      THEN [ok |-> TRUE, tok |-> TString(accumulator), pos |-> p + 1]
    ELSE IF s[p + 1] = NEWLINE
      THEN [ok |-> FALSE, tok |-> TNone, pos |-> p + 1]
    ELSE lex_string_closed_by_eof(s, p + 1, Append(accumulator, s[p + 1]))

RECURSIVE lex_string_dropping_spaces(_, _, _)
lex_string_dropping_spaces(s, p, accumulator) ==
    IF p >= Len(s) THEN [ok |-> FALSE, tok |-> TNone, pos |-> p]
    ELSE IF s[p + 1] = DQUOTE
      THEN [ok |-> TRUE, tok |-> TString(accumulator), pos |-> p + 1]
    ELSE IF s[p + 1] = NEWLINE
      THEN [ok |-> FALSE, tok |-> TNone, pos |-> p + 1]
    ELSE lex_string_dropping_spaces(s, p + 1,
            IF s[p + 1] = " " THEN accumulator
            ELSE Append(accumulator, s[p + 1]))

(***************************************************************************)
(* lex_string: entered with the opening quote consumed.                    *)
(***************************************************************************)
RECURSIVE lex_string(_, _, _)
lex_string(s, p, accumulator) ==
    IF p >= Len(s) THEN [ok |-> FALSE, tok |-> TNone, pos |-> p]
    ELSE IF s[p + 1] = DQUOTE
      THEN [ok |-> TRUE, tok |-> TString(accumulator), pos |-> p + 1]
    ELSE IF s[p + 1] = NEWLINE
      THEN [ok |-> FALSE, tok |-> TNone, pos |-> p + 1]
    ELSE lex_string(s, p + 1, Append(accumulator, s[p + 1]))

(***************************************************************************)
(* lex_number.  The i32 accumulator is kept as two 16-bit limbs (hi, lo),  *)
(* the bit pattern of the 32-bit word, so that accumulator * 10 + digit    *)
(* is computed with the width the program has.  With overflow checks (a    *)
(* debug build) an overflowing step panics; without them (a release        *)
(* build) the word wraps.  unwrap() of to_digit panics in either build.    *)
(***************************************************************************)
Limb == 65536
HalfLimb == 32768

I32OfLimbs(hi, lo) ==
    IF hi >= HalfLimb THEN (hi - Limb) * Limb + lo ELSE hi * Limb + lo

RECURSIVE lex_number_loop(_, _, _, _, _)
lex_number_loop(s, p, hi, lo, checked) ==
    IF p >= Len(s) \/ ~is_numeric(s[p + 1])
      THEN [panic |-> FALSE, tok |-> TNumber(I32OfLimbs(hi, lo)), pos |-> p]
    ELSE LET d == to_digit(s[p + 1])
             lo10 == lo * 10 + d
             hi10 == hi * 10 + (lo10 \div Limb)
         IN  IF d = -1
               THEN [panic |-> TRUE, tok |-> TNone, pos |-> p + 1]
             ELSE IF checked /\ hi10 >= HalfLimb
               THEN [panic |-> TRUE, tok |-> TNone, pos |-> p + 1]
             ELSE lex_number_loop(s, p + 1, hi10 % Limb, lo10 % Limb, checked)

\* Seeded fault of lex_number: the accumulator starts at 1.
lex_number_from_one(s, p, checked) == lex_number_loop(s, p, 0, 1, checked)

lex_number(s, p, checked) == lex_number_loop(s, p, 0, 0, checked)

(***************************************************************************)
(* lex_alphanumeric.                                                       *)
(***************************************************************************)
RECURSIVE alphanumeric_run(_, _, _)
alphanumeric_run(s, p, accumulator) ==
    IF p >= Len(s) \/ ~is_alphanumeric(s[p + 1])
      THEN [text |-> accumulator, pos |-> p]
    ELSE alphanumeric_run(s, p + 1, Append(accumulator, s[p + 1]))

\* Seeded fault of classify: a keyword text matches as a prefix.
classify_by_prefix(accumulator) ==
    IF \E i \in 1..Len(KEYWORDS) :
          /\ Len(KEYWORDS[i][1]) <= Len(accumulator)
          /\ SubSeq(accumulator, 1, Len(KEYWORDS[i][1])) = KEYWORDS[i][1]
      THEN TKeyword(KEYWORDS[CHOOSE i \in 1..Len(KEYWORDS) :
                       /\ Len(KEYWORDS[i][1]) <= Len(accumulator)
                       /\ SubSeq(accumulator, 1, Len(KEYWORDS[i][1]))
                             = KEYWORDS[i][1]][2])
    ELSE TIdentifier(accumulator)

classify(accumulator) ==
    IF \E i \in 1..Len(KEYWORDS) : KEYWORDS[i][1] = accumulator
      THEN IF from_str(accumulator) = "None" THEN TNone
           ELSE TKeyword(from_str(accumulator))
    ELSE TIdentifier(accumulator)

lex_alphanumeric(s, p) ==
    LET r == alphanumeric_run(s, p, <<>>)
    IN  [tok |-> classify(r.text), pos |-> r.pos]

(***************************************************************************)
(* lex_operator: consumes the first character, then at most one more.      *)
(***************************************************************************)
\* The arms '=', '!', '>', '<': two-character form when '=' follows, the
\* one-character form before any other character, none() at end of input.
op_with_equals(s, p, double, single) ==
    IF Peek(s, p + 1) = "EOF" THEN [tok |-> TNone, pos |-> p + 1]
    ELSE IF Peek(s, p + 1) = "=" THEN [tok |-> TOperator(double), pos |-> p + 2]
    ELSE [tok |-> TOperator(single), pos |-> p + 1]

\* The arms '&', '|': an operator only when the same character follows.
op_doubled(s, p, c, double) ==
    IF Peek(s, p + 1) = c THEN [tok |-> TOperator(double), pos |-> p + 2]
    ELSE [tok |-> TNone, pos |-> p + 1]

lex_operator(s, p) ==
    LET c == s[p + 1]
    IN  CASE c = "+" -> [tok |-> TOperator("Plus"), pos |-> p + 1]
          [] c = "-" -> [tok |-> TOperator("Minus"), pos |-> p + 1]
          [] c = "*" -> [tok |-> TOperator("Star"), pos |-> p + 1]
          [] c = "/" -> [tok |-> TOperator("Slash"), pos |-> p + 1]
          [] c = "=" -> op_with_equals(s, p, "DoubleEquals", "Equals")
          [] c = "!" -> op_with_equals(s, p, "NotEquals", "Bang")
          [] c = "%" -> [tok |-> TOperator("Mod"), pos |-> p + 1]
          [] c = ">" -> op_with_equals(s, p, "GreaterEqual", "Greater")
          [] c = "<" -> op_with_equals(s, p, "LessEqual", "Less")
          [] c = "&" -> op_doubled(s, p, "&", "And")
          [] c = "|" -> op_doubled(s, p, "|", "Or")
          [] OTHER -> [tok |-> TNone, pos |-> p + 1]

\* Seeded fault of ArmOf: the alphanumeric arm is tried before the digits.
ArmOfWordsFirst(c) ==
    IF c = DQUOTE THEN "string"
    ELSE IF is_alphanumeric(c) THEN "alphanumeric"
    ELSE IF c \in AsciiDigits THEN "number"
    ELSE IF c = "(" THEN "LeftParen"
    ELSE IF c = ")" THEN "RightParen"
    ELSE IF c = "{" THEN "LeftBrace"
    ELSE IF c = "}" THEN "RightBrace"
    ELSE IF c = "." THEN "Dot"
    ELSE IF c = "," THEN "Comma"
    ELSE IF c \in OperatorChars THEN "operator"
    ELSE IF c = ";" THEN "Semicolon"
    ELSE "skip"

(***************************************************************************)
(* lex_helper: the match on the peeked character picks the first arm that  *)
(* fits, and the arm's body is one iteration of the loop.                  *)
(***************************************************************************)
ArmOf(c) ==
    IF c = DQUOTE THEN "string"
    ELSE IF c \in AsciiDigits THEN "number"
    ELSE IF c = "(" THEN "LeftParen"
    ELSE IF c = ")" THEN "RightParen"
    ELSE IF c = "{" THEN "LeftBrace"
    ELSE IF c = "}" THEN "RightBrace"
    ELSE IF c = "." THEN "Dot"
    ELSE IF c = "," THEN "Comma"
    ELSE IF c \in OperatorChars THEN "operator"
    ELSE IF c = ";" THEN "Semicolon"
    ELSE IF is_alphanumeric(c) THEN "alphanumeric"
    ELSE "skip"

Pushed(toks, r) == [panic |-> FALSE, tokens |-> Append(toks, r.tok), pos |-> r.pos]

\* Seeded fault of StringBody: a failed literal is un-consumed back to the
\* character after its opening quote.
StringBodyRewinding(s, p, toks) ==
    LET r == lex_string(s, p + 1, <<>>)
    IN  IF r.ok THEN Pushed(toks, r)
        ELSE [panic |-> FALSE, tokens |-> toks, pos |-> p + 1]

StringBody(s, p, toks) ==
    LET r == lex_string(s, p + 1, <<>>)
    IN  IF r.ok THEN Pushed(toks, r)
        ELSE [panic |-> FALSE, tokens |-> toks, pos |-> r.pos]

NumberBody(s, p, toks, checked) ==
    LET r == lex_number(s, p, checked)
    IN  IF r.panic THEN [panic |-> TRUE, tokens |-> toks, pos |-> r.pos]
        ELSE Pushed(toks, r)

\* Seeded fault of StructuralBody: the character is not consumed.
StructuralBodyKeepingChar(arm, p, toks) == Pushed(toks, [tok |-> Tok(arm), pos |-> p])

StructuralBody(arm, p, toks) == Pushed(toks, [tok |-> Tok(arm), pos |-> p + 1])

OperatorBody(s, p, toks) == Pushed(toks, lex_operator(s, p))

AlphanumericBody(s, p, toks) == Pushed(toks, lex_alphanumeric(s, p))

SkipBody(p, toks) == [panic |-> FALSE, tokens |-> toks, pos |-> p + 1]

Iterate(s, p, toks, checked) ==
    LET arm == ArmOf(s[p + 1])
    IN  CASE arm = "string" -> StringBody(s, p, toks)
          [] arm = "number" -> NumberBody(s, p, toks, checked)
          [] arm = "operator" -> OperatorBody(s, p, toks)
          [] arm = "alphanumeric" -> AlphanumericBody(s, p, toks)
          [] arm = "skip" -> SkipBody(p, toks)
          [] OTHER -> StructuralBody(arm, p, toks)

(***************************************************************************)
(* lex as a function of its input: the loop run to its end.  The result    *)
(* is the token sequence lex returns, and whether the pass panicked.       *)
(***************************************************************************)
RECURSIVE lex_helper(_, _, _, _)
lex_helper(s, p, toks, checked) ==
    IF p >= Len(s) THEN [panic |-> FALSE, tokens |-> toks]
    ELSE LET r == Iterate(s, p, toks, checked)
         IN  IF r.panic THEN [panic |-> TRUE, tokens |-> <<>>]
             ELSE lex_helper(s, r.pos, r.tokens, checked)

lex(s, checked) == lex_helper(s, 0, <<>>, checked)

(***************************************************************************)
(* The inputs lex is run on.                                               *)
(***************************************************************************)
Strings(alphabet, n) == UNION {[1..k -> alphabet] : k \in 0..n}

\* Every string of up to MaxLen characters over one character of each class.
CoreAlphabet == {DQUOTE, NEWLINE, " ", "1", SUP2, "a", "i", "f", "=", "&", "("}

\* Every string of up to MaxShort characters over all characters.
ShortInputs == Strings(Chars, MaxShort)

\* Digit runs of up to MaxDigits digits, and the runs around i32::MAX.
I32MaxDigits == <<"2", "1", "4", "7", "4", "8", "3", "6", "4", "7">>

BoundaryRuns ==
    {I32MaxDigits, [I32MaxDigits EXCEPT ![10] = "8"],
     [I32MaxDigits EXCEPT ![10] = "6"], <<"0", "0">> \o I32MaxDigits,
     [I32MaxDigits EXCEPT ![1] = "4", ![2] = "2", ![3] = "9", ![4] = "4",
                          ![5] = "9", ![6] = "6", ![7] = "7", ![8] = "2",
                          ![9] = "9", ![10] = "6"],
     <<"3", "1", "1">>}

DigitRuns == Strings({"0", "9"}, MaxDigits) \cup BoundaryRuns

\* The keyword texts, alone, capitalised, and with up to MaxExtra
\* alphanumeric characters before and after.
KeywordTexts == {KEYWORDS[i][1] : i \in 1..Len(KEYWORDS)}

Upper(c) ==
    CASE c = "d" -> "D" [] c = "t" -> "T" [] c = "f" -> "F"
      [] c = "i" -> "I" [] c = "n" -> "N" [] OTHER -> c

Capitalised(w) == [w EXCEPT ![1] = Upper(w[1])]

WordExtra == {"a", "1", "e"}

WordInputs ==
    {pre \o w \o post :
        pre \in Strings(WordExtra, MaxExtra),
        w \in KeywordTexts \cup {Capitalised(k) : k \in KeywordTexts},
        post \in Strings(WordExtra, MaxExtra)}

Inputs == Strings(CoreAlphabet, MaxLen) \cup ShortInputs \cup DigitRuns
            \cup WordInputs

(***************************************************************************)
(* The state machine.                                                      *)
(***************************************************************************)
Init ==
    /\ input \in Inputs
    /\ pos = 0
    /\ tokens = <<>>
    /\ status = "running"

Apply(r) ==
    /\ pos' = r.pos
    /\ tokens' = r.tokens
    /\ status' = IF r.panic THEN "panicked" ELSE status
    /\ UNCHANGED input

Looping(arm) ==
    /\ status = "running"
    /\ pos < Len(input)
    /\ ArmOf(input[pos + 1]) = arm

StringArm == Looping("string") /\ Apply(StringBody(input, pos, tokens))

NumberArm ==
    /\ Looping("number")
    /\ \E checked \in BOOLEAN : Apply(NumberBody(input, pos, tokens, checked))

LeftParenArm == Looping("LeftParen") /\ Apply(StructuralBody("LeftParen", pos, tokens))

RightParenArm == Looping("RightParen") /\ Apply(StructuralBody("RightParen", pos, tokens))

LeftBraceArm == Looping("LeftBrace") /\ Apply(StructuralBody("LeftBrace", pos, tokens))

RightBraceArm == Looping("RightBrace") /\ Apply(StructuralBody("RightBrace", pos, tokens))

DotArm == Looping("Dot") /\ Apply(StructuralBody("Dot", pos, tokens))

CommaArm == Looping("Comma") /\ Apply(StructuralBody("Comma", pos, tokens))

OperatorArm == Looping("operator") /\ Apply(OperatorBody(input, pos, tokens))

SemicolonArm == Looping("Semicolon") /\ Apply(StructuralBody("Semicolon", pos, tokens))

AlphanumericArm == Looping("alphanumeric") /\ Apply(AlphanumericBody(input, pos, tokens))

SkipArm == Looping("skip") /\ Apply(SkipBody(pos, tokens))

\* Seeded fault of Return: an end-of-input token is appended.
ReturnWithEndToken ==
    /\ status = "running"
    /\ pos >= Len(input)
    /\ status' = "done"
    /\ tokens' = Append(tokens, Tok("Eof"))
    /\ UNCHANGED <<input, pos>>

\* peek() returns None: the loop ends and lex returns tokens.
Return ==
    /\ status = "running"
    /\ pos >= Len(input)
    /\ status' = "done"
    /\ UNCHANGED <<input, pos, tokens>>

Next ==
    \/ StringArm
    \/ NumberArm
    \/ LeftParenArm
    \/ RightParenArm
    \/ LeftBraceArm
    \/ RightBraceArm
    \/ DotArm
    \/ CommaArm
    \/ OperatorArm
    \/ SemicolonArm
    \/ AlphanumericArm
    \/ SkipArm
    \/ Return

Spec == Init /\ [][Next]_vars

TypeOK ==
    /\ input \in Inputs
    /\ pos \in 0..Len(input)
    /\ status \in {"running", "done", "panicked"}
    /\ \A i \in 1..Len(tokens) : tokens[i].type \in
          {"String", "Number", "Keyword", "Operator", "Identifier", "LeftParen",
           "RightParen", "LeftBrace", "RightBrace", "Dot", "Comma", "Semicolon",
           "None"}

(***************************************************************************)
(* Definitions the properties below share.                                 *)
(***************************************************************************)
AllIn(s, S) == \A i \in 1..Len(s) : s[i] \in S

Finished == status # "running"

(***************************************************************************)
(* C1.  The token sequence lex returns holds no token of type None: a      *)
(* sub-scanner's "no token" result is discarded, not appended.             *)
(***************************************************************************)
C1_NoNoneInOutput ==
    status = "done" => \A i \in 1..Len(tokens) : tokens[i].type # "None"

(***************************************************************************)
(* C2.  "&&" lexes to exactly one And and "||" to exactly one Or; a '&'    *)
(* or '|' not followed by the same character adds no token and leaves the  *)
(* following character to be lexed as usual, so "&" alone lexes to the     *)
(* empty sequence.                                                         *)
(***************************************************************************)
C2_MaximalMunchAndOr ==
    status = "done" =>
        /\ input = <<"&", "&">> => tokens = <<TOperator("And")>>
        /\ input = <<"|", "|">> => tokens = <<TOperator("Or")>>
        /\ \A x \in {"&", "|"} :
              /\ input = <<x>> => tokens = <<>>
              /\ (Len(input) >= 2 /\ input[1] = x /\ input[2] # x)
                    => tokens = lex(Tail(input), FALSE).tokens

(***************************************************************************)
(* C3.  "==" lexes to exactly DoubleEquals; "=" as the last character of   *)
(* the input lexes to exactly Equals; '=' before any other character       *)
(* lexes to Equals followed by what the rest lexes to.                     *)
(***************************************************************************)
C3_EqualsResolution ==
    status = "done" =>
        /\ input = <<"=", "=">> => tokens = <<TOperator("DoubleEquals")>>
        /\ input = <<"=">> => tokens = <<TOperator("Equals")>>
        /\ (Len(input) >= 2 /\ input[1] = "=" /\ input[2] # "=")
              => tokens = <<TOperator("Equals")>> \o lex(Tail(input), FALSE).tokens

(***************************************************************************)
(* C4.  As claimed: every non-empty alphanumeric run that is no keyword    *)
(* text, runs beginning with a digit included, lexes alone to exactly      *)
(* Identifier(W).                                                          *)
(***************************************************************************)
LettersAndDigits == Letters \cup AsciiDigits

NonKeywordRun(w) ==
    /\ w # <<>>
    /\ AllIn(w, LettersAndDigits)
    /\ w \notin KeywordTexts

C4_AnyRunIsIdentifier ==
    (NonKeywordRun(input) /\ Finished)
        => (status = "done" /\ tokens = <<TIdentifier(input)>>)

(***************************************************************************)
(* C4, amended.  Every non-empty alphanumeric run that does not begin      *)
(* with an ASCII digit and is no keyword text lexes alone to exactly       *)
(* Identifier(W).                                                          *)
(***************************************************************************)
C4_LetterFirstRunIsIdentifier ==
    (NonKeywordRun(input) /\ input[1] \notin AsciiDigits /\ Finished)
        => (status = "done" /\ tokens = <<TIdentifier(input)>>)

C4_Witness ==
    /\ status = "done"
    /\ Len(input) = 4
    /\ input[1] = "a"
    /\ input[2] = "1"
    /\ NonKeywordRun(input)
    /\ tokens = <<TIdentifier(input)>>

(***************************************************************************)
(* C5.  As claimed: every non-empty run of decimal digits, however long,   *)
(* lexes alone to exactly one NumberLiteral whose value is the integer     *)
(* the run denotes.  The value is compared through its decimal form.       *)
(***************************************************************************)
DigitChars == <<"0", "1", "2", "3", "4", "5", "6", "7", "8", "9">>

RECURSIVE DecimalOf(_)
DecimalOf(n) ==
    IF n < 10 THEN <<DigitChars[n + 1]>>
    ELSE Append(DecimalOf(n \div 10), DigitChars[(n % 10) + 1])

RECURSIVE StripZeros(_)
StripZeros(d) ==
    IF Len(d) > 1 /\ d[1] = "0" THEN StripZeros(Tail(d)) ELSE d

DigitRank(c) == CHOOSE k \in 1..10 : DigitChars[k] = c

\* d <= e for digit runs of the same length.
RECURSIVE RunLeq(_, _)
RunLeq(d, e) ==
    \/ d = <<>>
    \/ DigitRank(d[1]) < DigitRank(e[1])
    \/ d[1] = e[1] /\ RunLeq(Tail(d), Tail(e))

FitsI32(d) ==
    LET n == StripZeros(d)
    IN  \/ Len(n) < Len(I32MaxDigits)
        \/ Len(n) = Len(I32MaxDigits) /\ RunLeq(n, I32MaxDigits)

IsDigitRun(d) == d # <<>> /\ AllIn(d, AsciiDigits)

OneNumberOf(d) ==
    /\ status = "done"
    /\ Len(tokens) = 1
    /\ tokens[1].type = "Number"
    /\ tokens[1].num >= 0
    /\ tokens[1] = TNumber(tokens[1].num)
    /\ DecimalOf(tokens[1].num) = StripZeros(d)

C5_AnyDigitRunIsItsValue ==
    (IsDigitRun(input) /\ Finished) => OneNumberOf(input)

(***************************************************************************)
(* C5, amended.  Every non-empty run of decimal digits whose value is at   *)
(* most 2147483647 (leading zeros and a bare 0 included) lexes alone to    *)
(* exactly one NumberLiteral whose value is the integer the run denotes.   *)
(***************************************************************************)
C5_DigitRunInRangeIsItsValue ==
    (IsDigitRun(input) /\ FitsI32(input) /\ Finished) => OneNumberOf(input)

C5_Witness ==
    /\ status = "done"
    /\ input = <<"0", "0">> \o I32MaxDigits
    /\ tokens = <<TNumber(2147483647)>>

(***************************************************************************)
(* C6.  A string literal still open at the end of the input yields no      *)
(* token: '"' followed by characters other than '"' and newline lexes to   *)
(* the empty sequence, the swallowed characters yielding no tokens either. *)
(***************************************************************************)
OpenAtEnd(s) ==
    /\ Len(s) >= 1
    /\ s[1] = DQUOTE
    /\ \A i \in 2..Len(s) : s[i] \notin {DQUOTE, NEWLINE}

C6_UnterminatedStringDropped ==
    OpenAtEnd(input) =>
        /\ tokens = <<>>
        /\ pos \in {0, Len(input)}
        /\ Finished => status = "done"

C6_Witness ==
    /\ status = "done"
    /\ input = <<DQUOTE, "a", "1", "(">>
    /\ tokens = <<>>

(***************************************************************************)
(* C7.  On an input of whitespace and other characters that match no       *)
(* dispatch rule, every step consumes exactly one character and emits      *)
(* nothing, and lex returns the empty sequence.                            *)
(***************************************************************************)
Unrecognized == {" ", "\t", NEWLINE, "#", "_"}

C7_SkippedOneAtATime ==
    [][AllIn(input, Unrecognized) =>
          /\ tokens' = <<>>
          /\ status' # "panicked"
          /\ \/ pos' = pos + 1 /\ status' = "running"
             \/ pos' = pos /\ pos = Len(input) /\ status' = "done"]_vars

C7_Witness ==
    /\ status = "done"
    /\ input = <<"#", "_">>
    /\ pos = 2
    /\ tokens = <<>>

(***************************************************************************)
(* C8.  For every text T without '"' and newline, '"' T '"' lexes to       *)
(* exactly one token, StringLiteral(T): T is copied verbatim and none of   *)
(* its characters is lexed on its own.                                     *)
(***************************************************************************)
Quoted(s) ==
    /\ Len(s) >= 2
    /\ s[1] = DQUOTE
    /\ s[Len(s)] = DQUOTE
    /\ \A i \in 2..(Len(s) - 1) : s[i] \notin {DQUOTE, NEWLINE}

C8_QuotedTextIsOneString ==
    Quoted(input) =>
        /\ pos \in {0, Len(input)}
        /\ pos = 0 => tokens = <<>>
        /\ pos = Len(input) => tokens = <<TString(SubSeq(input, 2, Len(input) - 1))>>
        /\ status # "panicked"

C8_Witness ==
    /\ status = "done"
    /\ input = <<DQUOTE, " ", "(", DQUOTE>>
    /\ tokens = <<TString(<<" ", "(">>)>>

(***************************************************************************)
(* C9.  The word scanner, entered at a character that is alphanumeric and  *)
(* no ASCII digit, consumes the maximal alphanumeric run and appends       *)
(* exactly one token: the Keyword of the kind when the run is exactly      *)
(* define, true, false, if or null, and Identifier(run) for every other    *)
(* run; never a Keyword for another run, and never the None sentinel.      *)
(***************************************************************************)
\* Every character the word scanner takes: letters and all numeric characters.
Alphanumerics == Letters \cup AsciiDigits \cup {SUP2}

WordToken(w) ==
    CASE w = <<"d", "e", "f", "i", "n", "e">> -> TKeyword("Define")
      [] w = <<"t", "r", "u", "e">> -> TKeyword("True")
      [] w = <<"f", "a", "l", "s", "e">> -> TKeyword("False")
      [] w = <<"i", "f">> -> TKeyword("If")
      [] w = <<"n", "u", "l", "l">> -> TKeyword("Null")
      [] OTHER -> TIdentifier(w)

AtWord ==
    /\ status = "running"
    /\ pos < Len(input)
    /\ input[pos + 1] \in Alphanumerics \ AsciiDigits

C10_TokensAtMostConsumed ==
    /\ Len(tokens) <= pos
    /\ status = "done" => Len(tokens) <= Len(input)

C10_Witness ==
    /\ status = "done"
    /\ Len(input) = 4
    /\ Len(tokens) = 4

(***************************************************************************)
(* C11.  The loop terminates on every input: every iteration, whichever    *)
(* arm it takes, consumes at least one character; the cursor never moves   *)
(* back; a running loop always has a step to take; and the loop is left    *)
(* (lex returns) exactly when the cursor is exhausted.  Len(input) - pos   *)
(* is the variant.                                                         *)
(***************************************************************************)
C11_ProgressAndExit ==
    /\ [](status = "running" => ENABLED Next)
    /\ [](status = "done" => pos = Len(input))
    /\ [][/\ pos' >= pos
          /\ pos' <= Len(input)
          /\ (status = "running" /\ pos < Len(input))
                => (pos' > pos /\ status' # "done")
          /\ (status = "running" /\ pos >= Len(input))
                => (pos' = pos /\ status' = "done")]_vars

C11_Witness ==
    /\ status = "done"
    /\ input = <<DQUOTE, "a", NEWLINE, "1">>
    /\ pos = 4

(***************************************************************************)
(* C12.  lex runs to completion on every input: no unwrap meets None       *)
(* (lex_number applies to_digit(10) to decimal digits only) and no step    *)
(* aborts the pass.  Overflow of the accumulator is set aside: the         *)
(* statement is about inputs whose numeric runs are too short to overflow. *)
(***************************************************************************)
RECURSIVE LongestNumericRun(_, _, _)
LongestNumericRun(s, run, best) ==
    IF s = <<>> THEN IF run > best THEN run ELSE best
    ELSE IF s[1] \in AsciiDigits \cup {SUP2}
      THEN LongestNumericRun(Tail(s), run + 1, best)
    ELSE LongestNumericRun(Tail(s), 0, IF run > best THEN run ELSE best)

C12_NeverPanics ==
    LongestNumericRun(input, 0, 0) < Len(I32MaxDigits) => status # "panicked"

(***************************************************************************)
(* C13.  The output keeps source order: a step appends at most one token   *)
(* at the end of tokens and leaves the tokens already emitted as they      *)
(* are; and for lexemes L1, L2 (a number, a word, a closed string, an      *)
(* operator, a structural character) lex(L1 " " L2) is lex(L1) followed    *)
(* by lex(L2), equal tokens repeated.                                      *)
(***************************************************************************)
OperatorTexts ==
    {<<"+">>, <<"-">>, <<"*">>, <<"/">>, <<"=">>, <<"=", "=">>, <<"!", "=">>,
     <<"!">>, <<"%">>, <<">">>, <<"<">>, <<">", "=">>, <<"<", "=">>,
     <<"&", "&">>, <<"|", "|">>}

IsWord(l) == l # <<>> /\ AllIn(l, Alphanumerics) /\ l[1] \notin AsciiDigits

IsLexeme(l) ==
    \/ IsDigitRun(l)
    \/ IsWord(l)
    \/ Quoted(l)
    \/ l \in OperatorTexts
    \/ Len(l) = 1 /\ l[1] \in StructuralChars

JoinedAt(s, k) ==
    /\ s[k] = " "
    /\ IsLexeme(SubSeq(s, 1, k - 1))
    /\ IsLexeme(SubSeq(s, k + 1, Len(s)))

C13_SourceOrder ==
    /\ [][/\ Len(tokens') \in {Len(tokens), Len(tokens) + 1}
          /\ SubSeq(tokens', 1, Len(tokens)) = tokens]_vars
    /\ [](status = "done" =>
            \A k \in 2..(Len(input) - 1) :
               JoinedAt(input, k) =>
                  tokens = lex(SubSeq(input, 1, k - 1), FALSE).tokens
                             \o lex(SubSeq(input, k + 1, Len(input)), FALSE).tokens)

(***************************************************************************)
(* C14.  The operator scanner at '!', '>' or '<': when '=' follows it      *)
(* consumes both characters and emits NotEquals, GreaterEqual, LessEqual;  *)
(* in every other case, the end of the input included, it consumes one     *)
(* character and emits Bang, Greater, Less.  At '+', '-', '*', '/', '%'    *)
(* it consumes one character and emits Plus, Minus, Star, Slash, Mod       *)
(* whatever follows.                                                       *)
(***************************************************************************)
SingleOperator(c) ==
    CASE c = "!" -> "Bang" [] c = ">" -> "Greater" [] c = "<" -> "Less"
      [] c = "+" -> "Plus" [] c = "-" -> "Minus" [] c = "*" -> "Star"
      [] c = "/" -> "Slash" [] c = "%" -> "Mod"

WithEquals(c) ==
    CASE c = "!" -> "NotEquals" [] c = ">" -> "GreaterEqual"
      [] c = "<" -> "LessEqual"

AtChar(S) == status = "running" /\ pos < Len(input) /\ input[pos + 1] \in S

C14_OperatorResolution ==
    [][/\ AtChar({"!", ">", "<"}) =>
             IF pos + 1 < Len(input) /\ input[pos + 2] = "="
               THEN /\ pos' = pos + 2
                    /\ tokens' = Append(tokens, TOperator(WithEquals(input[pos + 1])))
               ELSE /\ pos' = pos + 1
                    /\ tokens' = Append(tokens, TOperator(SingleOperator(input[pos + 1])))
       /\ AtChar({"+", "-", "*", "/", "%"}) =>
             /\ pos' = pos + 1
             /\ tokens' = Append(tokens, TOperator(SingleOperator(input[pos + 1])))]_vars

(***************************************************************************)
(* C15.  The number scanner stops at the first character that is no        *)
(* decimal digit and leaves it in place: for a digit run D, a character c  *)
(* that is no decimal digit and a rest R, D c R lexes to NumberLiteral(D)  *)
(* followed by exactly the tokens of c R.  (Taken over the c R that lex    *)
(* completes on.)                                                          *)
(***************************************************************************)
RECURSIVE LeadingDigits(_)
LeadingDigits(s) ==
    IF s # <<>> /\ s[1] \in AsciiDigits THEN 1 + LeadingDigits(Tail(s)) ELSE 0

DigitsThenMore(s) ==
    /\ LeadingDigits(s) \in 1..(Len(s) - 1)
    /\ ~lex(SubSeq(s, LeadingDigits(s) + 1, Len(s)), FALSE).panic

C15_NumberStopsAtNonDigit ==
    (DigitsThenMore(input) /\ Finished) =>
        LET n == LeadingDigits(input)
        IN  /\ status = "done"
            /\ Len(tokens) >= 1
            /\ tokens[1].type = "Number"
            /\ tokens[1].num >= 0
            /\ DecimalOf(tokens[1].num) = StripZeros(SubSeq(input, 1, n))
            /\ Tail(tokens) = lex(SubSeq(input, n + 1, Len(input)), FALSE).tokens

(***************************************************************************)
(* C16.  A string literal cut by a newline yields no token; its opening    *)
(* quote, its text and the newline are consumed in one step and never      *)
(* lexed again, and lexing resumes right after the newline: '"' T newline  *)
(* R lexes to exactly what R lexes to.                                     *)
(***************************************************************************)
CutAt(s, k) ==
    /\ s[1] = DQUOTE
    /\ s[k] = NEWLINE
    /\ \A i \in 2..(k - 1) : s[i] \notin {DQUOTE, NEWLINE}

C16_NewlineCutsString ==
    \A k \in 2..Len(input) :
        CutAt(input, k) =>
            LET rest == lex(SubSeq(input, k + 1, Len(input)), FALSE)
            IN  /\ pos \in {0} \cup k..Len(input)
                /\ pos <= k => tokens = <<>>
                /\ status = "done" => (~rest.panic /\ tokens = rest.tokens)
                /\ status = "panicked" => rest.panic

C16_Witness ==
    /\ status = "done"
    /\ input = <<DQUOTE, "a", NEWLINE, "1">>
    /\ tokens = <<TNumber(1)>>

(***************************************************************************)
(* C17.  In every output, complete or in progress: an Identifier has a     *)
(* non-empty text of alphanumeric characters that does not begin with an   *)
(* ASCII digit and is none of the five keyword texts; a StringLiteral's    *)
(* text holds neither '"' nor newline; a Keyword is one of the five kinds, *)
(* never Keyword::None.                                                    *)
(***************************************************************************)
FiveKeywordTexts ==
    {<<"d", "e", "f", "i", "n", "e">>, <<"t", "r", "u", "e">>,
     <<"f", "a", "l", "s", "e">>, <<"i", "f">>, <<"n", "u", "l", "l">>}

WellFormedToken(t) ==
    /\ t.type = "Identifier" =>
          /\ t.text # <<>>
          /\ AllIn(t.text, Alphanumerics)
          /\ t.text[1] \notin AsciiDigits
          /\ t.text \notin FiveKeywordTexts
    /\ t.type = "String" => AllIn(t.text, Chars \ {DQUOTE, NEWLINE})
    /\ t.type = "Keyword" => t.kind \in {"Define", "True", "False", "If", "Null"}

C17_TokensWellFormed == \A i \in 1..Len(tokens) : WellFormedToken(tokens[i])

C17_Witness ==
    /\ status = "done"
    /\ input = <<"1", "a", DQUOTE, DQUOTE>>
    /\ tokens = <<TNumber(1), TIdentifier(<<"a">>), TString(<<>>)>>

(***************************************************************************)
(* C18.  Trailing whitespace is insignificant: for every input s that      *)
(* does not end inside an open string literal, s followed by one space     *)
(* lexes to the same tokens as s; so an operator character at the very     *)
(* end lexes as it does before a space.                                    *)
(***************************************************************************)
RECURSIVE InsideString(_, _)
InsideString(s, open) ==
    IF s = <<>> THEN open
    ELSE IF open THEN InsideString(Tail(s), s[1] \notin {DQUOTE, NEWLINE})
    ELSE InsideString(Tail(s), s[1] = DQUOTE)

Front(s) == SubSeq(s, 1, Len(s) - 1)

C18_TrailingSpaceInsignificant ==
    (/\ status = "done"
     /\ Len(input) >= 1
     /\ input[Len(input)] = " "
     /\ ~InsideString(Front(input), FALSE))
        => (/\ ~lex(Front(input), FALSE).panic
            /\ tokens = lex(Front(input), FALSE).tokens)

====
